---- MODULE Spec2Model ----
(***************************************************************************)
(* renderdoc-rs: the loader singleton of src/src/loader.rs.                *)
(*                                                                         *)
(* `load` maps the RenderDoc shared library through the OnceCell LIBRARY,  *)
(* takes the Mutex around the Library, reads INSTANCE_ACTIVE, resolves     *)
(* RENDERDOC_GetAPI, calls it, stores INSTANCE_ACTIVE and returns a        *)
(* FunctionTable.  Dropping a FunctionTable stores INSTANCE_ACTIVE=false.  *)
(* Every shared-memory access of `load` is one step of the model, so the   *)
(* interleavings of several threads calling `load` and dropping handles    *)
(* are the behaviours of Spec.                                             *)
(***************************************************************************)
EXTENDS Integers, FiniteSets, Sequences, TLC

(* ---------------- bounds ---------------- *)

\* number of application threads that call load / drop handles
NumThreads == 2

\* total number of load calls in one run
MaxLoads == 3

Threads == 1..NumThreads

NoThread == 0

(* ---------------- version codes ---------------- *)

\* from_digits with the minor digit weighted like a thousands digit
from_digits_minor_slip(major, minor, patch) ==
    major * 10000 + minor * 1000 + patch

\* from_digits: u8 arguments widened to c_uint; the largest value,
\* from_digits(255, 255, 255) = 2575755, is below 2^32, so nothing wraps
from_digits(major, minor, patch) ==
    major * 10000 + minor * 100 + patch

V100 == from_digits(1, 0, 0)

V141 == from_digits(1, 4, 1)

\* versions a caller passes to load
RequestVersions == {V100, V141}

\* versions of the RenderDoc library the process may be running under
HostVersions == {V100, V141}

(* ---------------- values ---------------- *)

\* ptr::null_mut()
NullPtr == 0

\* address of the host's function table, written through `out` on success
TablePtr == 1

\* LIBRARY.get() == None
NoLibrary == 0

\* results of load
Pending == "Pending"

Ok == "Ok"

ErrLibrary == "Library"

ErrSymbol == "Symbol"

ErrNoCompatibleApi == "NoCompatibleApi"

ErrMultipleInstances == "MultipleInstances"

VARIABLES
    pc,               \* [Threads -> position inside load]
    version,          \* load's argument
    lib,              \* the library reference a load got from LIBRARY
    api,              \* load's local `obj` / `api`
    result,           \* what the thread's last load returned
    LIBRARY,          \* OnceCell<Mutex<Library>>: NoLibrary or the mapping's id
    initializing,     \* thread running the OnceCell initializer, or NoThread
    mutexOwner,       \* thread holding the MutexGuard, or NoThread
    INSTANCE_ACTIVE,  \* AtomicBool
    handles,          \* live FunctionTable values
    hostVersion,      \* version of the host library (environment)
    loads,            \* history: load calls started
    drops,            \* history: FunctionTable drops
    mapAttempts,      \* history: load_library calls
    mapFailures,      \* history: load_library calls that returned Err
    symAttempts,      \* history: lib.get calls
    symFailures,      \* history: lib.get calls that returned Err
    cached,           \* history: a mapping / a symbol was obtained before
    obs,              \* history of each thread's current/last load
    fnCall,           \* the function applied last and its arguments
    fnRet,            \* what that application returned
    rdLibrary,        \* Version::load's own OnceCell<Library>: mapped or not
    rdHandles,        \* live RenderDoc<V> values
    rdLast,           \* the last operation on RenderDoc<V> values and its outcome
    options,          \* the host's capture options: option -> u32 value
    optLast,          \* the last capture-option call and its outcome
    numCaptures,      \* how many captures the host has recorded
    iterIndex,        \* the live CapturesIter's next index, or NoIter
    capLast           \* the last call on Captures / CapturesIter and its outcome

shared == <<LIBRARY, initializing, mutexOwner, INSTANCE_ACTIVE, handles>>

locals == <<pc, version, lib, api, result>>

counters == <<loads, drops, mapAttempts, mapFailures, symAttempts, symFailures>>

\* what the loader of loader.rs never writes
outside == <<hostVersion, fnCall, fnRet, rdLibrary, rdHandles, rdLast,
             options, optLast, numCaptures, iterIndex, capLast>>

\* the loader's own state
loaderVars == <<pc, version, lib, api, result, LIBRARY, initializing, mutexOwner,
                INSTANCE_ACTIVE, handles, loads, drops, mapAttempts,
                mapFailures, symAttempts, symFailures, cached, obs>>

vars == <<pc, version, lib, api, result, LIBRARY, initializing, mutexOwner,
          INSTANCE_ACTIVE, handles, hostVersion, loads, drops, mapAttempts,
          mapFailures, symAttempts, symFailures, cached, obs,
          fnCall, fnRet, rdLibrary, rdHandles, rdLast,
          options, optLast, numCaptures, iterIndex, capLast>>

\* the capture options of the host and the last call on them
optVars == <<options, optLast>>

\* the capture list of the host, the iterator over it, the last call on them
capVars == <<numCaptures, iterIndex, capLast>>

\* no function applied yet / no operation made yet
NoCall == [op |-> "none"]

\* no operation on a RenderDoc<V> value yet
NoRdCall ==
    [op |-> "none", seq |-> 0, tag |-> "V100", target |-> "V100",
     ptrIn |-> NullPtr, ptrOut |-> NullPtr, result |-> Pending,
     before |-> "none", origPtr |-> NullPtr]

\* the capture options the setters and getters below reach
OptionNames ==
    {"CaptureCallstacks", "CaptureCallstacksOnlyDraws", "DelayForDebugger",
     "AllowUnsupportedVendorExtensions"}

\* Duration::ZERO: seconds as a u64 of two u32 words, each of two 16-bit
\* halves, and the nanoseconds below one second
ZeroDuration ==
    [secs |-> [hi |-> [hi |-> 0, lo |-> 0], lo |-> [hi |-> 0, lo |-> 0]], nanos |-> 0]

\* no capture-option call yet
NoOptCall ==
    [op |-> "none", opt |-> "CaptureCallstacks", state |-> "none",
     delay |-> ZeroDuration, val |-> [hi |-> 0, lo |-> 0], rejected |-> FALSE,
     outcome |-> "none", got |-> "none", gotDelay |-> ZeroDuration,
     ccSet |-> "none", delaySet |-> ZeroDuration, delayKnown |-> FALSE]

\* no CapturesIter alive
NoIter == [alive |-> FALSE, index |-> 0]

\* no Capture value
NoCapture == [path |-> <<>>, timestamp |-> 0]

\* no call on Captures / CapturesIter yet
NoCapCall ==
    [op |-> "none", index |-> [hi |-> 0, lo |-> 0], n |-> 0, before |-> NoIter,
     count |-> 0, outcome |-> "none", capture |-> NoCapture, value |-> 0]

\* a load is between its call and its return
InLoad(t) == pc[t] # "idle"

NoObs ==
    [liveThroughout |-> FALSE, freeAtStart |-> FALSE, dropsAtStart |-> 0,
     raced |-> {}, didMap |-> FALSE, didResolve |-> FALSE, observed |-> "none",
     liveAtCheck |-> FALSE, hostCalls |-> 0, hostRet |-> 1]

Init ==
    /\ pc = [t \in Threads |-> "idle"]
    /\ version = [t \in Threads |-> V100]
    /\ lib = [t \in Threads |-> NoLibrary]
    /\ api = [t \in Threads |-> NullPtr]
    /\ result = [t \in Threads |-> Pending]
    /\ LIBRARY = NoLibrary
    /\ initializing = NoThread
    /\ mutexOwner = NoThread
    /\ INSTANCE_ACTIVE = FALSE
    /\ handles = {}
    /\ hostVersion \in HostVersions
    /\ loads = 0
    /\ drops = 0
    /\ mapAttempts = 0
    /\ mapFailures = 0
    /\ symAttempts = 0
    /\ symFailures = 0
    /\ cached = [library |-> FALSE, symbol |-> FALSE, libraryErr |-> FALSE, symbolErr |-> FALSE]
    /\ obs = [t \in Threads |-> NoObs]
    /\ fnCall = NoCall
    /\ fnRet = FALSE
    /\ rdLibrary = FALSE
    /\ rdHandles = {}
    /\ rdLast = NoRdCall
    /\ options = [opt \in OptionNames |-> [hi |-> 0, lo |-> 0]]
    /\ optLast = NoOptCall
    /\ numCaptures = 0
    /\ iterIndex = NoIter
    /\ capLast = NoCapCall

(* ---------------- the host ---------------- *)

\* RENDERDOC_GetAPI: 1 when the host implements the requested version
GetAPISupported(ver) == ver <= hostVersion

\* values RENDERDOC_GetAPI may return for a request
GetAPIReturns(ver) == IF GetAPISupported(ver) THEN {1} ELSE {0, -1}

(* ---------------- load ---------------- *)

\* load(version) is called
Load(t, ver) ==
    /\ pc[t] = "idle"
    /\ loads < MaxLoads
    /\ pc' = [pc EXCEPT ![t] = "init"]
    /\ version' = [version EXCEPT ![t] = ver]
    /\ result' = [result EXCEPT ![t] = Pending]
    /\ api' = [api EXCEPT ![t] = NullPtr]
    /\ lib' = [lib EXCEPT ![t] = NoLibrary]
    /\ loads' = loads + 1
    /\ obs' = [u \in Threads |->
                 IF u = t
                 THEN [NoObs EXCEPT !.liveThroughout = (handles # {}),
                                    !.freeAtStart = (handles = {}),
                                    !.dropsAtStart = drops,
                                    !.raced = {w \in Threads \ {t} : InLoad(w)}]
                 ELSE IF InLoad(u)
                      THEN [obs[u] EXCEPT !.raced = @ \cup {t}]
                      ELSE obs[u]]
    /\ UNCHANGED <<shared, outside, drops, mapAttempts, mapFailures,
                   symAttempts, symFailures, cached>>

\* OnceCell::get_or_try_init found the cell filled
CellFilled == LIBRARY # NoLibrary

\* a cell that lets racing initializers run side by side
CellIdleNoExclusion == TRUE

\* OnceCell lets one initializer run at a time
CellIdle == initializing = NoThread

\* a cell that also keeps the initializer's error and hands it out again
GetCachedOrFailure(t) ==
    /\ pc[t] = "init"
    /\ IF cached.libraryErr
       THEN /\ pc' = [pc EXCEPT ![t] = "idle"]
            /\ result' = [result EXCEPT ![t] = ErrLibrary]
            /\ UNCHANGED lib
       ELSE /\ CellFilled
            /\ pc' = [pc EXCEPT ![t] = "lock"]
            /\ lib' = [lib EXCEPT ![t] = LIBRARY]
            /\ UNCHANGED result
    /\ UNCHANGED <<version, api, shared, outside, counters, cached, obs>>

\* get_or_try_init: the cell holds the mapping, the closure is not run
GetCached(t) ==
    /\ pc[t] = "init"
    /\ CellFilled
    /\ pc' = [pc EXCEPT ![t] = "lock"]
    /\ lib' = [lib EXCEPT ![t] = LIBRARY]
    /\ UNCHANGED <<version, api, result, shared, outside, counters, cached, obs>>

\* get_or_try_init: the cell is empty and no other initializer runs; the
\* closure calls load_library
InitBegin(t) ==
    /\ pc[t] = "init"
    /\ ~CellFilled
    /\ CellIdle
    /\ initializing' = t
    /\ pc' = [pc EXCEPT ![t] = "loading"]
    /\ mapAttempts' = mapAttempts + 1
    /\ obs' = [obs EXCEPT ![t].didMap = TRUE]
    /\ UNCHANGED <<version, lib, api, result, LIBRARY, mutexOwner, INSTANCE_ACTIVE,
                   handles, outside, loads, drops, mapFailures, symAttempts,
                   symFailures, cached>>

\* load_library returned Ok: the cell is filled
InitOk(t) ==
    /\ pc[t] = "loading"
    /\ LIBRARY' = mapAttempts
    /\ lib' = [lib EXCEPT ![t] = mapAttempts]
    /\ initializing' = NoThread
    /\ pc' = [pc EXCEPT ![t] = "lock"]
    /\ cached' = [cached EXCEPT !.library = TRUE]
    /\ UNCHANGED <<version, api, result, mutexOwner, INSTANCE_ACTIVE, handles,
                   outside, counters, obs>>

\* load_library returned Err: the cell stays empty, load returns
\* Err(Error::library)
InitErr(t) ==
    /\ pc[t] = "loading"
    /\ initializing' = NoThread
    /\ pc' = [pc EXCEPT ![t] = "idle"]
    /\ result' = [result EXCEPT ![t] = ErrLibrary]
    /\ mapFailures' = mapFailures + 1
    /\ cached' = [cached EXCEPT !.libraryErr = TRUE]
    /\ UNCHANGED <<version, lib, api, LIBRARY, mutexOwner, INSTANCE_ACTIVE, handles,
                   outside, loads, drops, mapAttempts, symAttempts, symFailures, obs>>

\* a lock that excludes nobody
MutexFreeNoExclusion == TRUE

\* Mutex::lock succeeds when nobody holds the guard
MutexFree == mutexOwner = NoThread

\* .lock().unwrap()
Lock(t) ==
    /\ pc[t] = "lock"
    /\ MutexFree
    /\ mutexOwner' = t
    /\ pc' = [pc EXCEPT ![t] = "check"]
    /\ UNCHANGED <<version, lib, api, result, LIBRARY, initializing, INSTANCE_ACTIVE,
                   handles, outside, counters, cached, obs>>

\* the early return never taken
ActiveCheckIgnored(flag) == FALSE

\* INSTANCE_ACTIVE.load(SeqCst) decides the early return
ActiveCheck(flag) == flag

\* the flag tested only after get_api has been called
CheckActiveAfterCall(t) ==
    /\ pc[t] = "check"
    /\ obs' = [obs EXCEPT ![t].observed = IF INSTANCE_ACTIVE THEN "active" ELSE "free",
                          ![t].liveAtCheck = (handles # {}),
                          ![t].hostCalls = @ + 1]
    /\ IF INSTANCE_ACTIVE
       THEN /\ pc' = [pc EXCEPT ![t] = "idle"]
            /\ result' = [result EXCEPT ![t] = ErrMultipleInstances]
            /\ mutexOwner' = NoThread
       ELSE /\ pc' = [pc EXCEPT ![t] = "sym"]
            /\ UNCHANGED <<result, mutexOwner>>
    /\ UNCHANGED <<version, lib, api, LIBRARY, initializing, INSTANCE_ACTIVE, handles,
                   outside, counters, cached>>

\* if INSTANCE_ACTIVE.load(..) { return Err(multiple_instances()) }
CheckActive(t) ==
    /\ pc[t] = "check"
    /\ obs' = [obs EXCEPT ![t].observed = IF INSTANCE_ACTIVE THEN "active" ELSE "free",
                          ![t].liveAtCheck = (handles # {})]
    /\ IF ActiveCheck(INSTANCE_ACTIVE)
       THEN /\ pc' = [pc EXCEPT ![t] = "idle"]
            /\ result' = [result EXCEPT ![t] = ErrMultipleInstances]
            /\ mutexOwner' = NoThread
       ELSE /\ pc' = [pc EXCEPT ![t] = "sym"]
            /\ UNCHANGED <<result, mutexOwner>>
    /\ UNCHANGED <<version, lib, api, LIBRARY, initializing, INSTANCE_ACTIVE, handles,
                   outside, counters, cached>>

\* a symbol kept from an earlier load and used without calling lib.get
ResolveOkCached(t) ==
    /\ pc[t] = "sym"
    /\ pc' = [pc EXCEPT ![t] = "call"]
    /\ symAttempts' = IF cached.symbol THEN symAttempts ELSE symAttempts + 1
    /\ cached' = [cached EXCEPT !.symbol = TRUE]
    /\ obs' = [obs EXCEPT ![t].didResolve = ~cached.symbol, ![t].hostCalls = @ + 1]
    /\ UNCHANGED <<version, lib, api, result, shared, outside, loads, drops,
                   mapAttempts, mapFailures, symFailures>>

\* lib.get(b"RENDERDOC_GetAPI\0") returned Ok; get_api is entered
ResolveOk(t) ==
    /\ pc[t] = "sym"
    /\ pc' = [pc EXCEPT ![t] = "call"]
    /\ symAttempts' = symAttempts + 1
    /\ cached' = [cached EXCEPT !.symbol = TRUE]
    /\ obs' = [obs EXCEPT ![t].didResolve = TRUE, ![t].hostCalls = @ + 1]
    /\ UNCHANGED <<version, lib, api, result, shared, outside, loads, drops,
                   mapAttempts, mapFailures, symFailures>>

\* lib.get returned Err: load returns Err(Error::symbol)
ResolveErr(t) ==
    /\ pc[t] = "sym"
    /\ pc' = [pc EXCEPT ![t] = "idle"]
    /\ result' = [result EXCEPT ![t] = ErrSymbol]
    /\ mutexOwner' = NoThread
    /\ symAttempts' = symAttempts + 1
    /\ symFailures' = symFailures + 1
    /\ cached' = [cached EXCEPT !.symbolErr = TRUE]
    /\ obs' = [obs EXCEPT ![t].didResolve = TRUE]
    /\ UNCHANGED <<version, lib, api, LIBRARY, initializing, INSTANCE_ACTIVE, handles,
                   outside, loads, drops, mapAttempts, mapFailures>>

\* any non-zero return taken for success
AcceptedNonZero(ret) == ret # 0

\* match get_api(version, &mut obj) { 1 => .. }
Accepted(ret) == ret = 1

\* the flag stored before the match on get_api's return value
GetApiReturnFlagFirst(t, ret) ==
    /\ pc[t] = "call"
    /\ ret \in GetAPIReturns(version[t])
    /\ obs' = [obs EXCEPT ![t].hostRet = ret]
    /\ INSTANCE_ACTIVE' = TRUE
    /\ IF ret = 1
       THEN /\ api' = [api EXCEPT ![t] = TablePtr]
            /\ pc' = [pc EXCEPT ![t] = "store"]
            /\ UNCHANGED <<result, mutexOwner>>
       ELSE /\ pc' = [pc EXCEPT ![t] = "idle"]
            /\ result' = [result EXCEPT ![t] = ErrNoCompatibleApi]
            /\ mutexOwner' = NoThread
            /\ UNCHANGED api
    /\ UNCHANGED <<version, lib, LIBRARY, initializing, handles,
                   outside, counters, cached>>

\* get_api returns
GetApiReturn(t, ret) ==
    /\ pc[t] = "call"
    /\ ret \in GetAPIReturns(version[t])
    /\ obs' = [obs EXCEPT ![t].hostRet = ret]
    /\ IF Accepted(ret)
       THEN /\ api' = [api EXCEPT ![t] = TablePtr]
            /\ pc' = [pc EXCEPT ![t] = "store"]
            /\ UNCHANGED <<result, mutexOwner>>
       ELSE /\ pc' = [pc EXCEPT ![t] = "idle"]
            /\ result' = [result EXCEPT ![t] = ErrNoCompatibleApi]
            /\ mutexOwner' = NoThread
            /\ UNCHANGED api
    /\ UNCHANGED <<version, lib, LIBRARY, initializing, INSTANCE_ACTIVE, handles,
                   outside, counters, cached>>

\* INSTANCE_ACTIVE.store(true, SeqCst)
StoreActive(t) ==
    /\ pc[t] = "store"
    /\ INSTANCE_ACTIVE' = TRUE
    /\ pc' = [pc EXCEPT ![t] = "ret"]
    /\ UNCHANGED <<version, lib, api, result, LIBRARY, initializing, mutexOwner,
                   handles, outside, counters, cached, obs>>

\* a sequence number no live FunctionTable carries: two values made by the
\* same thread around the same pointer are still two values
FreshSeq ==
    IF handles = {} THEN 1
    ELSE 1 + CHOOSE n \in {h.seq : h \in handles} : \A h \in handles : h.seq <= n

\* Ok(FunctionTable { api }); the guard is dropped on return
ReturnOk(t) ==
    /\ pc[t] = "ret"
    /\ handles' = handles \cup {[api |-> api[t], by |-> t, seq |-> FreshSeq]}
    /\ result' = [result EXCEPT ![t] = Ok]
    /\ mutexOwner' = NoThread
    /\ pc' = [pc EXCEPT ![t] = "idle"]
    /\ UNCHANGED <<version, lib, api, LIBRARY, initializing, INSTANCE_ACTIVE,
                   outside, counters, cached, obs>>

(* ---------------- impl Drop for FunctionTable ---------------- *)

\* a drop that leaves the flag as it is
DropValueStale == INSTANCE_ACTIVE

\* the value drop stores into INSTANCE_ACTIVE
DropValue == FALSE

\* a live FunctionTable is dropped, on any thread (FunctionTable: Send)
Drop(h) ==
    /\ h \in handles
    /\ handles' = handles \ {h}
    /\ INSTANCE_ACTIVE' = DropValue
    /\ drops' = drops + 1
    /\ obs' = [u \in Threads |-> [obs[u] EXCEPT !.liveThroughout = FALSE]]
    /\ UNCHANGED <<locals, LIBRARY, initializing, mutexOwner, outside, loads,
                   mapAttempts, mapFailures, symAttempts, symFailures, cached>>

Next ==
    \/ \E t \in Threads, ver \in RequestVersions : Load(t, ver)
    \/ \E t \in Threads : GetCached(t)
    \/ \E t \in Threads : InitBegin(t)
    \/ \E t \in Threads : InitOk(t)
    \/ \E t \in Threads : InitErr(t)
    \/ \E t \in Threads : Lock(t)
    \/ \E t \in Threads : CheckActive(t)
    \/ \E t \in Threads : ResolveOk(t)
    \/ \E t \in Threads : ResolveErr(t)
    \/ \E t \in Threads, ret \in {-1, 0, 1} : GetApiReturn(t, ret)
    \/ \E t \in Threads : StoreActive(t)
    \/ \E t \in Threads : ReturnOk(t)
    \/ \E h \in handles : Drop(h)

Spec == Init /\ [][Next]_vars

(* ---------------- version tags (src/src/version.rs) ---------------- *)

\* the tags in the order of the define_versions! invocation
VersionList ==
    <<"V100", "V101", "V102", "V110", "V111", "V112", "V120", "V130", "V140",
      "V141", "V142", "V150", "V160">>

VersionTags == {VersionList[i] : i \in 1..Len(VersionList)}

\* position of a tag in the define_versions! invocation
TagIndex(tag) == CHOOSE i \in 1..Len(VersionList) : VersionList[i] = tag

\* the version each tag's constant eRENDERDOC_API_Version_<major>_<minor>_<patch> names
VersionDigits ==
    [tag \in VersionTags |->
        CASE tag = "V100" -> <<1, 0, 0>>
          [] tag = "V101" -> <<1, 0, 1>>
          [] tag = "V102" -> <<1, 0, 2>>
          [] tag = "V110" -> <<1, 1, 0>>
          [] tag = "V111" -> <<1, 1, 1>>
          [] tag = "V112" -> <<1, 1, 2>>
          [] tag = "V120" -> <<1, 2, 0>>
          [] tag = "V130" -> <<1, 3, 0>>
          [] tag = "V140" -> <<1, 4, 0>>
          [] tag = "V141" -> <<1, 4, 1>>
          [] tag = "V142" -> <<1, 4, 2>>
          [] tag = "V150" -> <<1, 5, 0>>
          [] tag = "V160" -> <<1, 6, 0>>]

\* the values of the constants eRENDERDOC_API_Version_*
eRENDERDOC_API_Version ==
    [tag \in VersionTags |->
        CASE tag = "V100" -> 10000
          [] tag = "V101" -> 10001
          [] tag = "V102" -> 10002
          [] tag = "V110" -> 10100
          [] tag = "V111" -> 10101
          [] tag = "V112" -> 10102
          [] tag = "V120" -> 10200
          [] tag = "V130" -> 10300
          [] tag = "V140" -> 10400
          [] tag = "V141" -> 10401
          [] tag = "V142" -> 10402
          [] tag = "V150" -> 10500
          [] tag = "V160" -> 10600]

\* <$name as Version>::VERSION
VERSION(tag) == eRENDERDOC_API_Version[tag]

\* the u8 values from_digits is applied to
DigitSamples == {0, 1, 2, 3, 4, 5, 6, 99, 100, 255}

\* one generated impl: `impl Trait<target> for self` (direct),
\* `impl<V: Trait<bound>> Trait<target> for V` (blanket),
\* `impl<V: Version> Trait<target> for V` (all)
DirectImpl(self, target) == [kind |-> "direct", self |-> self, target |-> target, bound |-> ""]

BlanketImpl(bound, target) == [kind |-> "blanket", self |-> "", target |-> target, bound |-> bound]

AllImpl(target) == [kind |-> "all", self |-> "", target |-> target, bound |-> ""]

RECURSIVE minimum_rec_irreflexive(_)
\* @minimum_rec without the `impl Minimum<$first> for $first` lines
minimum_rec_irreflexive(rest) ==
    IF Len(rest) >= 2
    THEN {BlanketImpl(rest[2], rest[1])} \cup minimum_rec_irreflexive(Tail(rest))
    ELSE {}

RECURSIVE minimum_rec(_)
\* define_versions!(@minimum_rec ..): the impls it expands to
minimum_rec(rest) ==
    IF Len(rest) >= 2
    THEN {DirectImpl(rest[1], rest[1]), BlanketImpl(rest[2], rest[1])}
             \cup minimum_rec(Tail(rest))
    ELSE IF Len(rest) = 1
         THEN {DirectImpl(rest[1], rest[1])}
         ELSE {}

\* define_versions!(@minimum ..)
minimum(list) == {AllImpl(Head(list))} \cup minimum_rec(Tail(list))

RECURSIVE below_rec(_)
\* define_versions!(@below_rec ..) on the reversed list
below_rec(rev) ==
    IF Len(rev) >= 3
    THEN {DirectImpl(rev[2], rev[1]), BlanketImpl(rev[2], rev[1])}
             \cup below_rec(Tail(rev))
    ELSE IF Len(rev) = 2
         THEN {DirectImpl(rev[2], rev[1])}
         ELSE {}

RECURSIVE below_rev(_, _)
\* define_versions!(@below_rev [..] ..): reverses the list, then @below_rec
below_rev(list, reversed) ==
    IF list = <<>>
    THEN below_rec(reversed)
    ELSE below_rev(Tail(list), <<Head(list)>> \o reversed)

\* @below that hands the list to @below_rec without reversing it
below_unreversed(list) == below_rec(list)

\* define_versions!(@below ..)
below(list) == below_rev(list, <<>>)

RECURSIVE TraitHolds(_, _, _)
\* trait resolution: `a: Trait<b>` holds when some impl for target b applies
TraitHolds(impls, a, b) ==
    \E i \in impls :
        /\ i.target = b
        /\ CASE i.kind = "all" -> TRUE
             [] i.kind = "direct" -> i.self = a
             [] i.kind = "blanket" -> TraitHolds(impls, a, i.bound)

\* A: Minimum<B>
Minimum(a, b) == TraitHolds(minimum(VersionList), a, b)

\* A: Below<B>
Below(a, b) == TraitHolds(below(VersionList), a, b)

\* a relation or a code is evaluated, once, for given tags / digits
ApplyMinimum(a, b) ==
    /\ fnCall = NoCall
    /\ fnCall' = [op |-> "Minimum", a |-> a, b |-> b]
    /\ fnRet' = Minimum(a, b)
    /\ UNCHANGED <<loaderVars, optVars, capVars, hostVersion, rdLibrary, rdHandles, rdLast>>

ApplyBelow(a, b) ==
    /\ fnCall = NoCall
    /\ fnCall' = [op |-> "Below", a |-> a, b |-> b]
    /\ fnRet' = Below(a, b)
    /\ UNCHANGED <<loaderVars, optVars, capVars, hostVersion, rdLibrary, rdHandles, rdLast>>

ApplyVERSION(tag) ==
    /\ fnCall = NoCall
    /\ fnCall' = [op |-> "VERSION", tag |-> tag]
    /\ fnRet' = VERSION(tag)
    /\ UNCHANGED <<loaderVars, optVars, capVars, hostVersion, rdLibrary, rdHandles, rdLast>>

ApplyFromDigits(major, minor, patch) ==
    /\ fnCall = NoCall
    /\ fnCall' = [op |-> "from_digits", major |-> major, minor |-> minor, patch |-> patch]
    /\ fnRet' = from_digits(major, minor, patch)
    /\ UNCHANGED <<loaderVars, optVars, capVars, hostVersion, rdLibrary, rdHandles, rdLast>>

(* ---------------- version-gated capture options (capture_opts.rs) ---------------- *)

\* no upper bound on an impl block
NoBelow == "none"

\* `impl<V: Minimum<V100> + Below<V102>> SetCaptureOptions<'_, V>` written with
\* the bound of the block after it
set_capture_options_below_slip ==
    {[method |-> "debug_device_mode", minimum |-> "V100", below |-> "V110"],
     [method |-> "save_all_initials", minimum |-> "V100", below |-> "V110"],
     [method |-> "verify_map_writes", minimum |-> "V100", below |-> "V130"],
     [method |-> "api_validation", minimum |-> "V102", below |-> NoBelow],
     [method |-> "verify_buffer_access", minimum |-> "V130", below |-> NoBelow]}

\* the impl blocks of SetCaptureOptions<'_, V> that hold renamed or removed
\* setters, each with its bounds on V
SetCaptureOptionsImpls ==
    {[method |-> "debug_device_mode", minimum |-> "V100", below |-> "V102"],
     [method |-> "save_all_initials", minimum |-> "V100", below |-> "V110"],
     [method |-> "verify_map_writes", minimum |-> "V100", below |-> "V130"],
     [method |-> "api_validation", minimum |-> "V102", below |-> NoBelow],
     [method |-> "verify_buffer_access", minimum |-> "V130", below |-> NoBelow]}

\* the impl blocks of CaptureOptions<'_, V> that hold the matching getters
CaptureOptionsImpls ==
    {[method |-> "debug_device_mode", minimum |-> "V100", below |-> "V102"],
     [method |-> "save_all_initials", minimum |-> "V100", below |-> "V110"],
     [method |-> "verify_map_writes", minimum |-> "V100", below |-> "V130"],
     [method |-> "api_validation", minimum |-> "V102", below |-> NoBelow],
     [method |-> "verify_buffer_access", minimum |-> "V130", below |-> NoBelow]}

GatedMethods ==
    {"debug_device_mode", "save_all_initials", "verify_map_writes",
     "api_validation", "verify_buffer_access"}

OptionTraits == {"SetCaptureOptions", "CaptureOptions"}

ImplsOf(trait) ==
    IF trait = "SetCaptureOptions" THEN SetCaptureOptionsImpls ELSE CaptureOptionsImpls

\* method resolution: the method exists on the type for tag v when the bounds
\* of the impl block that defines it hold for v
MethodAvailable(trait, method, v) ==
    \E i \in ImplsOf(trait) :
        /\ i.method = method
        /\ Minimum(v, i.minimum)
        /\ (i.below # NoBelow => Below(v, i.below))

ApplyMethodAvailable(trait, method, v) ==
    /\ fnCall = NoCall
    /\ fnCall' = [op |-> "available", trait |-> trait, method |-> method, tag |-> v]
    /\ fnRet' = MethodAvailable(trait, method, v)
    /\ UNCHANGED <<loaderVars, optVars, capVars, hostVersion, rdLibrary, rdHandles, rdLast>>

NextVersion ==
    \/ \E a, b \in VersionTags : ApplyMinimum(a, b)
    \/ \E a, b \in VersionTags : ApplyBelow(a, b)
    \/ \E tag \in VersionTags : ApplyVERSION(tag)
    \/ \E major, minor, patch \in DigitSamples : ApplyFromDigits(major, minor, patch)
    \/ \E trait \in OptionTraits, method \in GatedMethods, v \in VersionTags :
           ApplyMethodAvailable(trait, method, v)

SpecVersion == Init /\ [][NextVersion]_vars

(* ---------------- RenderDoc<V> values (renderdoc.rs) ---------------- *)

\* how many RenderDoc<V> values are kept alive at once
MaxLive == 2

\* the record of one operation: the value it took (seq, tag, pointer), the tag
\* asked for and the outcome; of the operation made just before it, whether it
\* was a shutdown, or a downgrade of this same value from the tag now asked
\* for (and then the pointer that value held before the downgrade)
RdCall(op, seq, tag, target, ptrIn, ptrOut, res) ==
    LET back == /\ rdLast.op = "downgrade"
                /\ rdLast.seq = seq
                /\ rdLast.tag = target
    IN [op |-> op, seq |-> seq, tag |-> tag, target |-> target,
        ptrIn |-> ptrIn, ptrOut |-> ptrOut, result |-> res,
        before |-> IF rdLast.op = "shutdown" THEN "shutdown"
                   ELSE IF back THEN "downgrade" ELSE "other",
        origPtr |-> IF back THEN rdLast.ptrIn ELSE NullPtr]

\* the least number no live RenderDoc<V> value carries
RdFreshSeq ==
    CHOOSE n \in 1..(Cardinality(rdHandles) + 1) :
        /\ \A h \in rdHandles : h.seq # n
        /\ \A m \in 1..(n - 1) : \E h \in rdHandles : h.seq = m

\* Version::load: maps the library through its own OnceCell (a failure is not
\* kept), resolves RENDERDOC_GetAPI, calls it with Self::VERSION; only the
\* return value 1 gives the pointer
Version_load(tag, mapped, resolved, r) ==
    IF ~(rdLibrary \/ mapped) THEN [library |-> FALSE, result |-> ErrLibrary, obj |-> NullPtr]
    ELSE IF ~resolved THEN [library |-> TRUE, result |-> ErrSymbol, obj |-> NullPtr]
    ELSE IF r = 1 THEN [library |-> TRUE, result |-> Ok, obj |-> TablePtr]
    ELSE [library |-> TRUE, result |-> ErrNoCompatibleApi, obj |-> NullPtr]

\* the tags RenderDoc::<V>::new() is called with
NewTags == {"V100", "V141", "V150"}

\* RenderDoc::<V>::new(): V::load()?, then wraps the pointer; the initializer
\* of the cell runs only when the cell is empty, lib.get only when the library
\* is mapped, RENDERDOC_GetAPI only when the symbol was resolved
new(tag, mapped, resolved, r) ==
    /\ Cardinality(rdHandles) < MaxLive
    /\ rdLibrary => mapped
    /\ ~mapped => resolved
    /\ r \in GetAPIReturns(VERSION(tag))
    /\ ~resolved => r = 1 \/ r = 0
    /\ LET l == Version_load(tag, mapped, resolved, r)
           seq == RdFreshSeq
       IN /\ rdLibrary' = l.library
          /\ rdHandles' = IF l.result = Ok
                          THEN rdHandles \cup {[entry |-> l.obj, tag |-> tag, seq |-> seq]}
                          ELSE rdHandles
          /\ rdLast' = RdCall("new", seq, tag, tag, NullPtr, l.obj, l.result)
    /\ UNCHANGED <<loaderVars, optVars, capVars, hostVersion, fnCall, fnRet>>

\* a RenderDoc<V> value goes out of scope; RenderDoc has no Drop impl
RdScopeEnd(h) ==
    /\ h \in rdHandles
    /\ rdHandles' = rdHandles \ {h}
    /\ rdLast' = RdCall("scope_end", h.seq, h.tag, h.tag, h.entry, NullPtr, Ok)
    /\ UNCHANGED <<loaderVars, optVars, capVars, hostVersion, fnCall, fnRet, rdLibrary>>

\* shutdown(&self): the value outlives the call
shutdown_by_reference(h) ==
    /\ h \in rdHandles
    /\ rdLast' = RdCall("shutdown", h.seq, h.tag, h.tag, h.entry, NullPtr, Ok)
    /\ UNCHANGED <<loaderVars, optVars, capVars, hostVersion, fnCall, fnRet, rdLibrary, rdHandles>>

\* RenderDoc::shutdown(self): calls the host's Shutdown; self is moved in and
\* gone when the call returns
shutdown(h) ==
    /\ h \in rdHandles
    /\ rdHandles' = rdHandles \ {h}
    /\ rdLast' = RdCall("shutdown", h.seq, h.tag, h.tag, h.entry, NullPtr, Ok)
    /\ UNCHANGED <<loaderVars, optVars, capVars, hostVersion, fnCall, fnRet, rdLibrary>>

\* HasPrevious: the tags that have a Previous
HasPrevious(tag) == TagIndex(tag) > 1

\* <V as HasPrevious>::Previous
Previous(tag) == VersionList[TagIndex(tag) - 1]

\* RenderDoc::downgrade(self) -> RenderDoc<V::Previous>: takes the value apart
\* and wraps the same entry pointer
downgrade(h) ==
    /\ h \in rdHandles
    /\ HasPrevious(h.tag)
    /\ LET out == [entry |-> h.entry, tag |-> Previous(h.tag), seq |-> h.seq]
       IN /\ rdHandles' = (rdHandles \ {h}) \cup {out}
          /\ rdLast' = RdCall("downgrade", h.seq, h.tag, out.tag, h.entry, out.entry, Ok)
    /\ UNCHANGED <<loaderVars, optVars, capVars, hostVersion, fnCall, fnRet, rdLibrary>>

\* the list impl_from_versions! is invoked with
FromList == <<"V141", "V140", "V130", "V120", "V112", "V111", "V110", "V100">>

RECURSIVE impl_from_versions_reversed(_)
\* impl_from_versions! with the two types of each impl exchanged
impl_from_versions_reversed(list) ==
    IF Len(list) <= 1 THEN {}
    ELSE {[newer |-> list[i], older |-> list[1]] : i \in 2..Len(list)}
             \cup impl_from_versions_reversed(Tail(list))

RECURSIVE impl_from_versions(_)
\* impl_from_versions!: From<RenderDoc<$newer>> for RenderDoc<$older>, for the
\* head of the list and every tag after it, then the same for the tail
impl_from_versions(list) ==
    IF Len(list) <= 1 THEN {}
    ELSE {[newer |-> list[1], older |-> list[i]] : i \in 2..Len(list)}
             \cup impl_from_versions(Tail(list))

\* the From impls between RenderDoc<V> types
FromImpls == impl_from_versions(FromList)

\* the tags written in #[renderdoc_convert(..)] lists
ConvertTags == {"V100", "V110", "V120"}

\* the #[renderdoc_convert(..)] lists: some of the tags, each once, in any order
ConvertAttrs ==
    {attr \in UNION {[1..n -> ConvertTags] : n \in 1..3} :
        \A i, j \in DOMAIN attr : attr[i] = attr[j] => i = j}

\* build_api_list: the idents of the attribute, sorted (idents V### sort as
\* their tags are listed)
build_api_list(attr) == SortSeq(attr, LAMBDA a, b : TagIndex(a) < TagIndex(b))

RECURSIVE gen_from_impls(_)
\* gen_from_impls: From<#name<#newer>> for #name<#older>, newer the last of
\* the list, older every one before it; then the same for the list without
\* its last
gen_from_impls(apis) ==
    IF Len(apis) <= 1 THEN {}
    ELSE LET last_idx == Len(apis)
         IN {[newer |-> apis[last_idx], older |-> apis[i]] : i \in 1..(last_idx - 1)}
                \cup gen_from_impls(SubSeq(apis, 1, last_idx - 1))

\* the From impls #[derive(RenderDoc)] generates, over all the lists
DerivedFromImpls ==
    UNION {gen_from_impls(build_api_list(attr)) : attr \in ConvertAttrs}

\* From<RenderDoc<newer>> for RenderDoc<older>: takes the value apart and wraps
\* the same entry pointer
from(h, older) ==
    /\ h \in rdHandles
    /\ [newer |-> h.tag, older |-> older] \in FromImpls
    /\ LET out == [entry |-> h.entry, tag |-> older, seq |-> h.seq]
       IN /\ rdHandles' = (rdHandles \ {h}) \cup {out}
          /\ rdLast' = RdCall("from", h.seq, h.tag, older, h.entry, out.entry, Ok)
    /\ UNCHANGED <<loaderVars, optVars, capVars, hostVersion, fnCall, fnRet, rdLibrary>>

\* the host's GetAPIVersion: writes the digits of the API version it implements
GetAPIVersion ==
    <<hostVersion \div 10000, (hostVersion \div 100) % 100, hostVersion % 100>>

\* get_api_version that reads the minor digits into major as well
get_api_version_major_from_minor(h) ==
    <<GetAPIVersion[2], GetAPIVersion[2], GetAPIVersion[3]>>

\* get_api_version with major and minor exchanged
get_api_version_swapped(h) ==
    <<GetAPIVersion[2], GetAPIVersion[1], GetAPIVersion[3]>>

\* RenderDoc<V100>::get_api_version(&self): (major, minor, patch) as the host
\* wrote them
get_api_version(h) ==
    <<GetAPIVersion[1], GetAPIVersion[2], GetAPIVersion[3]>>

\* the pairs (U, V) of tags with U: Minimum<V>
MinimumPairs == {p \in VersionTags \X VersionTags : Minimum(p[1], p[2])}

\* the tags try_upgrade is asked for
UpgradeTags == {"V100", "V111", "V140", "V141", "V150"}

\* try_upgrade::<U>(h) where U: Minimum<V>: asks the host for its version,
\* compares its code with U's; re-tags on success, gives h back otherwise
try_upgrade(h, U) ==
    /\ h \in rdHandles
    /\ <<U, h.tag>> \in MinimumPairs
    /\ LET v == get_api_version(h)
           ok == from_digits(v[1], v[2], v[3]) >= VERSION(U)
           out == IF ok THEN [entry |-> h.entry, tag |-> U, seq |-> h.seq] ELSE h
       IN /\ rdHandles' = (rdHandles \ {h}) \cup {out}
          /\ rdLast' = RdCall("try_upgrade", h.seq, h.tag, U, h.entry, out.entry,
                              IF ok THEN Ok ELSE "Err")
    /\ UNCHANGED <<loaderVars, optVars, capVars, hostVersion, fnCall, fnRet, rdLibrary>>

NextRD ==
    \/ \E tag \in NewTags, mapped \in BOOLEAN, resolved \in BOOLEAN, r \in {-1, 0, 1} :
           new(tag, mapped, resolved, r)
    \/ \E h \in rdHandles : RdScopeEnd(h)
    \/ \E h \in rdHandles : shutdown(h)
    \/ \E h \in rdHandles : downgrade(h)
    \/ \E h \in rdHandles, older \in VersionTags : from(h, older)
    \/ \E h \in rdHandles, U \in UpgradeTags : try_upgrade(h, U)

SpecRD == Init /\ [][NextRD]_vars

(* ---------------- OverlayBits (overlay_bits.rs) ---------------- *)

\* RENDERDOC_OverlayBits is a u32, kept here as its two 16-bit halves
HalfRange == 65536

\* the u32 whose upper half is hi and whose lower half is lo
U32(hi, lo) == [hi |-> hi, lo |-> lo]

RECURSIVE and16(_, _, _)
\* x & y on the n lowest bits
and16(x, y, n) ==
    IF n = 0 THEN 0
    ELSE (x % 2) * (y % 2) + 2 * and16(x \div 2, y \div 2, n - 1)

RECURSIVE or16(_, _, _)
\* x | y on the n lowest bits
or16(x, y, n) ==
    IF n = 0 THEN 0
    ELSE (IF x % 2 = 1 \/ y % 2 = 1 THEN 1 ELSE 0)
             + 2 * or16(x \div 2, y \div 2, n - 1)

\* x & y on u32
u32_and(x, y) == U32(and16(x.hi, y.hi, 16), and16(x.lo, y.lo, 16))

\* x | y on u32
u32_or(x, y) == U32(or16(x.hi, y.hi, 16), or16(x.lo, y.lo, 16))

\* !x on u32
u32_not(x) == U32(HalfRange - 1 - x.hi, HalfRange - 1 - x.lo)

eRENDERDOC_Overlay_Enabled == 1

eRENDERDOC_Overlay_FrameRate == 2

eRENDERDOC_Overlay_FrameNumber == 4

eRENDERDOC_Overlay_CaptureList == 8

eRENDERDOC_Overlay_Default == 15

\* the four flags, as u32
OverlayFlags ==
    {U32(0, eRENDERDOC_Overlay_Enabled), U32(0, eRENDERDOC_Overlay_FrameRate),
     U32(0, eRENDERDOC_Overlay_FrameNumber), U32(0, eRENDERDOC_Overlay_CaptureList)}

\* RENDERDOC_OverlayBits::MAX
u32_MAX == U32(HalfRange - 1, HalfRange - 1)

\* RENDERDOC_OverlayBits::MIN
u32_MIN == U32(0, 0)

\* the bit patterns the functions are applied to: no bit, each flag, two
\* flags, all four, the first bit above the flags alone and with CAPTURE_LIST,
\* the complements of a flag and of all flags, the top bit, a pattern with
\* bits in both halves, every bit
BitPatterns ==
    {u32_MIN, U32(0, 1), U32(0, 2), U32(0, 4), U32(0, 8), U32(0, 3), U32(0, 15),
     U32(0, 16), U32(0, 24), U32(65535, 65527), U32(65535, 65520),
     U32(32768, 0), U32(4660, 22141), u32_MAX}

\* OverlayBits::from_bits: keeps every bit
from_bits(bits) == [bits |-> bits]

\* from_bits_truncate that keeps every bit
from_bits_truncate_keeps_all(bits) == [bits |-> bits]

\* OverlayBits::from_bits_truncate
from_bits_truncate(bits) ==
    [bits |-> u32_or(u32_or(u32_or(u32_or(
                  u32_and(bits, U32(0, eRENDERDOC_Overlay_Enabled)),
                  u32_and(bits, U32(0, eRENDERDOC_Overlay_FrameRate))),
                  u32_and(bits, U32(0, eRENDERDOC_Overlay_FrameNumber))),
                  u32_and(bits, U32(0, eRENDERDOC_Overlay_CaptureList))),
                  u32_and(bits, U32(0, eRENDERDOC_Overlay_Default)))]

\* OverlayBits::all
all == from_bits(u32_MAX)

\* OverlayBits::empty
empty == from_bits(u32_MIN)

\* OverlayBits::contains
contains(self, other) == u32_and(self.bits, other.bits) = other.bits

\* bitand that drops the bits of no flag
bitand_truncating(self, rhs) == from_bits_truncate(u32_and(self.bits, rhs.bits))

\* BitAnd for OverlayBits
bitand(self, rhs) == from_bits(u32_and(self.bits, rhs.bits))

\* BitOr for OverlayBits
bitor(self, rhs) == from_bits(u32_or(self.bits, rhs.bits))

\* Not for OverlayBits
not(self) == from_bits(u32_not(self.bits))

\* the OverlayBits values the operators are applied to
OverlayValues == {from_bits(b) : b \in BitPatterns}

ApplyFromBitsTruncate(bits) ==
    /\ fnCall = NoCall
    /\ fnCall' = [op |-> "from_bits_truncate", bits |-> bits]
    /\ fnRet' = from_bits_truncate(bits)
    /\ UNCHANGED <<loaderVars, optVars, capVars, hostVersion, rdLibrary, rdHandles, rdLast>>

ApplyBitAnd(a, b) ==
    /\ fnCall = NoCall
    /\ fnCall' = [op |-> "bitand", a |-> a, b |-> b]
    /\ fnRet' = bitand(a, b)
    /\ UNCHANGED <<loaderVars, optVars, capVars, hostVersion, rdLibrary, rdHandles, rdLast>>

ApplyBitOr(a, b) ==
    /\ fnCall = NoCall
    /\ fnCall' = [op |-> "bitor", a |-> a, b |-> b]
    /\ fnRet' = bitor(a, b)
    /\ UNCHANGED <<loaderVars, optVars, capVars, hostVersion, rdLibrary, rdHandles, rdLast>>

ApplyNot(a) ==
    /\ fnCall = NoCall
    /\ fnCall' = [op |-> "not", a |-> a]
    /\ fnRet' = not(a)
    /\ UNCHANGED <<loaderVars, optVars, capVars, hostVersion, rdLibrary, rdHandles, rdLast>>

ApplyContains(a, b) ==
    /\ fnCall = NoCall
    /\ fnCall' = [op |-> "contains", a |-> a, b |-> b]
    /\ fnRet' = contains(a, b)
    /\ UNCHANGED <<loaderVars, optVars, capVars, hostVersion, rdLibrary, rdHandles, rdLast>>

\* the markers V of the OverlayBits<V> values that are compared
MarkerTags == {"V100", "V101"}

\* impl<V1, V2> PartialEq<OverlayBits<V2>> for OverlayBits<V1>: for every pair
\* of markers
PartialEqImpl(v1, v2) == TRUE

\* impl<V> PartialOrd for OverlayBits<V> (and Ord): for one marker on both
\* sides only
PartialOrdImpl(v1, v2) == v1 = v2

\* eq as #[derive(PartialEq)] on one type would give it: no two markers
eq_same_marker(v1, self, v2, rhs) == v1 = v2 /\ self.bits = rhs.bits

\* PartialEq::eq: self.bits == rhs.bits
eq(v1, self, v2, rhs) == self.bits = rhs.bits

\* the cmp of u32
u32_cmp(x, y) ==
    IF x.hi < y.hi THEN "Less"
    ELSE IF x.hi > y.hi THEN "Greater"
    ELSE IF x.lo < y.lo THEN "Less"
    ELSE IF x.lo > y.lo THEN "Greater"
    ELSE "Equal"

\* PartialOrd::partial_cmp / Ord::cmp: self.bits.cmp(&other.bits)
cmp(self, other) == u32_cmp(self.bits, other.bits)

\* OverlayBits::is_default: self.bits & Default == Default
is_default(self) ==
    u32_and(self.bits, U32(0, eRENDERDOC_Overlay_Default))
        = U32(0, eRENDERDOC_Overlay_Default)

\* the array iter walks through
IterFlags ==
    <<U32(0, eRENDERDOC_Overlay_Enabled), U32(0, eRENDERDOC_Overlay_FrameRate),
      U32(0, eRENDERDOC_Overlay_FrameNumber), U32(0, eRENDERDOC_Overlay_CaptureList)>>

\* iter that tests the bits of the flag against the value the wrong way round
iter_contained_in_flag(self) ==
    LET flags == [i \in DOMAIN IterFlags |-> from_bits(IterFlags[i])]
        Kept(flag) == contains(flag, self)
    IN SelectSeq(flags, Kept)

\* OverlayBits::iter: the flags of the array, made values by from_bits, that
\* self contains
iter(self) ==
    LET flags == [i \in DOMAIN IterFlags |-> from_bits(IterFlags[i])]
        Kept(flag) == contains(self, flag)
    IN SelectSeq(flags, Kept)

\* x == y between OverlayBits<v1> and OverlayBits<v2>
ApplyEq(v1, a, v2, b) ==
    /\ fnCall = NoCall
    /\ PartialEqImpl(v1, v2)
    /\ fnCall' = [op |-> "eq", v1 |-> v1, a |-> a, v2 |-> v2, b |-> b]
    /\ fnRet' = eq(v1, a, v2, b)
    /\ UNCHANGED <<loaderVars, optVars, capVars, hostVersion, rdLibrary, rdHandles, rdLast>>

\* x.cmp(y) between OverlayBits<v1> and OverlayBits<v2>; where there is no
\* impl the comparison is not part of any program
ApplyCmp(v1, a, v2, b) ==
    /\ fnCall = NoCall
    /\ fnCall' = [op |-> "cmp", v1 |-> v1, a |-> a, v2 |-> v2, b |-> b]
    /\ fnRet' = IF PartialOrdImpl(v1, v2) THEN cmp(a, b) ELSE "NoImpl"
    /\ UNCHANGED <<loaderVars, optVars, capVars, hostVersion, rdLibrary, rdHandles, rdLast>>

ApplyIsDefault(a) ==
    /\ fnCall = NoCall
    /\ fnCall' = [op |-> "is_default", a |-> a]
    /\ fnRet' = is_default(a)
    /\ UNCHANGED <<loaderVars, optVars, capVars, hostVersion, rdLibrary, rdHandles, rdLast>>

ApplyIter(a) ==
    /\ fnCall = NoCall
    /\ fnCall' = [op |-> "iter", a |-> a]
    /\ fnRet' = iter(a)
    /\ UNCHANGED <<loaderVars, optVars, capVars, hostVersion, rdLibrary, rdHandles, rdLast>>

NextBits ==
    \/ \E bits \in BitPatterns : ApplyFromBitsTruncate(bits)
    \/ \E a \in OverlayValues, b \in OverlayValues : ApplyBitAnd(a, b)
    \/ \E a \in OverlayValues, b \in OverlayValues : ApplyBitOr(a, b)
    \/ \E a \in OverlayValues : ApplyNot(a)
    \/ \E a \in OverlayValues, b \in OverlayValues : ApplyContains(a, b)
    \/ \E v1 \in MarkerTags, v2 \in MarkerTags, a \in OverlayValues, b \in OverlayValues :
           ApplyEq(v1, a, v2, b)
    \/ \E v1 \in MarkerTags, v2 \in MarkerTags, a \in OverlayValues, b \in OverlayValues :
           ApplyCmp(v1, a, v2, b)
    \/ \E a \in OverlayValues : ApplyIsDefault(a)
    \/ \E a \in OverlayValues : ApplyIter(a)

SpecBits == Init /\ [][NextBits]_vars

(* ---------------- capture options (capture_opts.rs, renderdoc.rs) ---------------- *)

\* the u64 whose upper word is hi and whose lower word is lo
U64(hi, lo) == [hi |-> hi, lo |-> lo]

\* a Duration of secs whole seconds (a u64) and nanos nanoseconds
Duration(secs, nanos) == [secs |-> secs, nanos |-> nanos]

\* Duration::as_secs
as_secs(d) == d.secs

\* `x as u32` for a u64 x: the low 32 bits
as_u32(x) == x.lo

\* `x as u64` for a u32 x
as_u64(x) == U64(U32(0, 0), x)

\* Duration::from_secs
from_secs(secs) == Duration(secs, 0)

\* the delays passed to the setter: two seconds, u32::MAX seconds and one
\* second more than that, each with and without a fraction of a second
DurationSamples ==
    {Duration(secs, nanos) :
        secs \in {U64(U32(0, 0), U32(0, 2)), U64(U32(0, 0), u32_MAX),
                  U64(U32(0, 1), U32(0, 0))},
        nanos \in {0, 500000000}}

\* values the host may hold for an option
OptionSamples == {U32(0, 0), U32(0, 1), U32(0, 2), u32_MAX}

CaptureCallstacksOption == {"Disabled", "Enabled", "OnlyActions"}

\* RENDERDOC_API: SetCaptureOptionU32(opt, val); whether the host accepts the
\* pair is the host's choice; an accepted value is stored, and 1 is returned
SetCaptureOptionU32(store, opt, val, accepts) ==
    [store |-> IF accepts THEN [store EXCEPT ![opt] = val] ELSE store,
     ret |-> IF accepts THEN 1 ELSE 0]

\* RENDERDOC_API: GetCaptureOptionU32(opt)
GetCaptureOptionU32(store, opt) == store[opt]

\* SetCaptureOptions::try_set_u32
try_set_u32(store, opt, val, accepts) ==
    LET host == SetCaptureOptionU32(store, opt, val, accepts)
    IN  [store |-> host.store, value |-> IF host.ret = 1 THEN "Ok" ELSE "Err"]

\* SetCaptureOptions::set_u32: expect() on the result of try_set_u32
set_u32(store, opt, val, accepts) ==
    LET r == try_set_u32(store, opt, val, accepts)
    IN  [store |-> r.store, value |-> IF r.value = "Ok" THEN "unit" ELSE "panic"]

\* the setter for Enabled without the write of CaptureCallstacksOnlyDraws
capture_callstacks_writes_one_option(state) ==
    CASE state = "Disabled" -> << <<"CaptureCallstacks", U32(0, 0)>> >>
      [] state = "Enabled" -> << <<"CaptureCallstacks", U32(0, 1)>> >>
      [] state = "OnlyActions" ->
            << <<"CaptureCallstacks", U32(0, 1)>>,
               <<"CaptureCallstacksOnlyDraws", U32(0, 1)>> >>

\* the set_u32 calls SetCaptureOptions::capture_callstacks makes for a state,
\* in order
capture_callstacks_writes(state) ==
    CASE state = "Disabled" -> << <<"CaptureCallstacks", U32(0, 0)>> >>
      [] state = "Enabled" ->
            << <<"CaptureCallstacks", U32(0, 1)>>,
               <<"CaptureCallstacksOnlyDraws", U32(0, 0)>> >>
      [] state = "OnlyActions" ->
            << <<"CaptureCallstacks", U32(0, 1)>>,
               <<"CaptureCallstacksOnlyDraws", U32(0, 1)>> >>

RECURSIVE set_u32_each(_, _, _)
\* consecutive set_u32 calls; the first panic ends the method
set_u32_each(store, writes, accepts) ==
    IF writes = <<>> THEN [store |-> store, value |-> "self"]
    ELSE LET r == set_u32(store, Head(writes)[1], Head(writes)[2], Head(accepts))
         IN  IF r.value = "panic" THEN r
             ELSE set_u32_each(r.store, Tail(writes), Tail(accepts))

\* CaptureOptions::try_get_u32
try_get_u32(store, opt) ==
    LET value == GetCaptureOptionU32(store, opt)
    IN  IF value = u32_MAX THEN [value |-> "Err", val |-> value]
        ELSE [value |-> "Ok", val |-> value]

\* CaptureOptions::get_u32: expect() on the result of try_get_u32
get_u32(store, opt) ==
    LET r == try_get_u32(store, opt)
    IN  [value |-> IF r.value = "Ok" THEN "u32" ELSE "panic", val |-> r.val]

\* the host, or another client of the host, holds some value for an option
HostOptionHeld(opt, val) ==
    /\ options[opt] # val
    /\ options' = [options EXCEPT ![opt] = val]
    /\ optLast' = [NoOptCall EXCEPT
                     !.op = "host", !.opt = opt, !.val = val,
                     !.ccSet = IF opt \in {"CaptureCallstacks", "CaptureCallstacksOnlyDraws"}
                               THEN "none" ELSE optLast.ccSet,
                     !.delaySet = optLast.delaySet,
                     !.delayKnown = opt # "DelayForDebugger" /\ optLast.delayKnown]
    /\ UNCHANGED <<loaderVars, capVars, hostVersion, fnCall, fnRet, rdLibrary, rdHandles, rdLast>>

\* RenderDoc<V100>::set_capture_option_u32
set_capture_option_u32(opt, val, accepts) ==
    LET host == SetCaptureOptionU32(options, opt, val, accepts)
    IN  /\ options' = host.store
        /\ optLast' = [NoOptCall EXCEPT
                         !.op = "set_capture_option_u32", !.opt = opt, !.val = val,
                         !.rejected = host.ret # 1,
                         !.outcome = IF host.ret = 1 THEN "unit" ELSE "panic",
                         !.ccSet = IF opt \in {"CaptureCallstacks", "CaptureCallstacksOnlyDraws"}
                                   THEN "none" ELSE optLast.ccSet,
                         !.delaySet = optLast.delaySet,
                         !.delayKnown = opt # "DelayForDebugger" /\ optLast.delayKnown]
        /\ UNCHANGED <<loaderVars, capVars, hostVersion, fnCall, fnRet, rdLibrary, rdHandles, rdLast>>

\* SetCaptureOptions::capture_callstacks
SetCaptureOptions_capture_callstacks(state, accepts) ==
    LET r == set_u32_each(options, capture_callstacks_writes(state), accepts)
    IN  /\ options' = r.store
        /\ optLast' = [NoOptCall EXCEPT
                         !.op = "set_capture_callstacks", !.state = state,
                         !.rejected = \E i \in DOMAIN accepts : ~accepts[i],
                         !.outcome = r.value,
                         !.ccSet = IF r.value = "self" THEN state ELSE "none",
                         !.delaySet = optLast.delaySet,
                         !.delayKnown = optLast.delayKnown]
        /\ UNCHANGED <<loaderVars, capVars, hostVersion, fnCall, fnRet, rdLibrary, rdHandles, rdLast>>

\* CaptureOptions::capture_callstacks
CaptureOptions_capture_callstacks ==
    LET cc == get_u32(options, "CaptureCallstacks")
        od == get_u32(options, "CaptureCallstacksOnlyDraws")
        got == IF cc.value = "panic" THEN "panic"
               ELSE IF cc.val = U32(0, 1)
                    THEN IF od.value = "panic" THEN "panic"
                         ELSE IF od.val = U32(0, 1) THEN "OnlyActions" ELSE "Enabled"
                    ELSE "Disabled"
    IN  /\ optLast' = [NoOptCall EXCEPT
                         !.op = "capture_callstacks",
                         !.outcome = IF got = "panic" THEN "panic" ELSE "returned",
                         !.got = got,
                         !.ccSet = optLast.ccSet,
                         !.delaySet = optLast.delaySet,
                         !.delayKnown = optLast.delayKnown]
        /\ UNCHANGED <<loaderVars, capVars, hostVersion, fnCall, fnRet, rdLibrary, rdHandles,
                       rdLast, options>>

\* SetCaptureOptions::delay_for_debugger
SetCaptureOptions_delay_for_debugger(delay, accepts) ==
    LET r == set_u32(options, "DelayForDebugger", as_u32(as_secs(delay)), accepts)
    IN  /\ options' = r.store
        /\ optLast' = [NoOptCall EXCEPT
                         !.op = "set_delay_for_debugger", !.delay = delay,
                         !.rejected = ~accepts,
                         !.outcome = IF r.value = "panic" THEN "panic" ELSE "self",
                         !.ccSet = optLast.ccSet,
                         !.delaySet = delay,
                         !.delayKnown = r.value # "panic"]
        /\ UNCHANGED <<loaderVars, capVars, hostVersion, fnCall, fnRet, rdLibrary, rdHandles, rdLast>>

\* CaptureOptions::delay_for_debugger
CaptureOptions_delay_for_debugger ==
    LET secs == get_u32(options, "DelayForDebugger")
    IN  /\ optLast' = [NoOptCall EXCEPT
                         !.op = "delay_for_debugger",
                         !.outcome = IF secs.value = "panic" THEN "panic" ELSE "returned",
                         !.gotDelay = IF secs.value = "panic" THEN ZeroDuration
                                      ELSE from_secs(as_u64(secs.val)),
                         !.ccSet = optLast.ccSet,
                         !.delaySet = optLast.delaySet,
                         !.delayKnown = optLast.delayKnown]
        /\ UNCHANGED <<loaderVars, capVars, hostVersion, fnCall, fnRet, rdLibrary, rdHandles,
                       rdLast, options>>

\* SetCaptureOptions::allow_unsupported_vendor_extensions
allow_unsupported_vendor_extensions(ext, accepts) ==
    LET r == try_set_u32(options, "AllowUnsupportedVendorExtensions", ext, accepts)
    IN  /\ options' = r.store
        /\ optLast' = [NoOptCall EXCEPT
                         !.op = "allow_unsupported_vendor_extensions",
                         !.opt = "AllowUnsupportedVendorExtensions", !.val = ext,
                         !.rejected = ~accepts,
                         !.outcome = r.value,
                         !.ccSet = optLast.ccSet,
                         !.delaySet = optLast.delaySet,
                         !.delayKnown = optLast.delayKnown]
        /\ UNCHANGED <<loaderVars, capVars, hostVersion, fnCall, fnRet, rdLibrary, rdHandles, rdLast>>

NextOpts ==
    \/ \E opt \in {"CaptureCallstacks", "CaptureCallstacksOnlyDraws"} :
           \E val \in OptionSamples : HostOptionHeld(opt, val)
    \/ \E opt \in {"CaptureCallstacks", "CaptureCallstacksOnlyDraws"} :
           \E val \in {U32(0, 1), U32(0, 2)}, accepts \in BOOLEAN :
               set_capture_option_u32(opt, val, accepts)
    \/ \E state \in CaptureCallstacksOption :
           \E accepts \in [1..Len(capture_callstacks_writes(state)) -> BOOLEAN] :
               SetCaptureOptions_capture_callstacks(state, accepts)
    \/ CaptureOptions_capture_callstacks
    \/ \E delay \in DurationSamples, accepts \in BOOLEAN :
           SetCaptureOptions_delay_for_debugger(delay, accepts)
    \/ CaptureOptions_delay_for_debugger
    \/ \E ext \in {U32(0, 1), U32(0, 2)}, accepts \in BOOLEAN :
           allow_unsupported_vendor_extensions(ext, accepts)

SpecOpts == Init /\ [][NextOpts]_vars

(* ---------------- captures (captures.rs) ---------------- *)

\* most captures the host records
MaxCaptures == 2

\* largest index the iterator is driven to
MaxIndex == 4

\* the capture the host holds at index i: the bytes of its path, with the
\* terminating NUL, and the time it was taken, in seconds since the epoch
HostCapture(i) == [path |-> <<47, 99, 48 + i, 0>>, timestamp |-> 1000 + i]

\* RENDERDOC_API: GetCapture(index, ..) returns 1 when the capture exists
GetCapture(n, index) == IF index < n THEN 1 ELSE 0

\* Captures::check_exists
check_exists(n, index) ==
    IF GetCapture(n, index) = 1
    THEN [some |-> TRUE, path_len |-> Len(HostCapture(index).path)]
    ELSE [some |-> FALSE, path_len |-> 0]

\* CString::from_vec_with_nul on a Vec: its elements are the first len bytes
\* of its memory; exactly one NUL, as the last element, is required
from_vec_with_nul(buf) ==
    LET bytes == SubSeq(buf.mem, 1, buf.len)
    IN  IF /\ Len(bytes) > 0
           /\ bytes[Len(bytes)] = 0
           /\ \A k \in 1..(Len(bytes) - 1) : bytes[k] # 0
        THEN [value |-> "Ok", string |-> SubSeq(bytes, 1, Len(bytes) - 1)]
        ELSE [value |-> "Err", string |-> <<>>]

\* Captures::get for a usize index (upper and lower 32 bits)
get(n, index) ==
    IF index.hi # 0 THEN [outcome |-> "None", capture |-> NoCapture]
    ELSE LET exists == check_exists(n, index.lo)
             \* Vec::with_capacity(path_len), then the host writes the path
             \* through buf.as_mut_ptr(); the length stays 0
             buf == [len |-> 0, cap |-> exists.path_len,
                     mem |-> HostCapture(index.lo).path]
             path == from_vec_with_nul(buf)
         IN  IF ~exists.some THEN [outcome |-> "None", capture |-> NoCapture]
             ELSE IF path.value = "Err" THEN [outcome |-> "panic", capture |-> NoCapture]
             ELSE [outcome |-> "Some",
                   capture |-> [path |-> path.string,
                                timestamp |-> HostCapture(index.lo).timestamp]]

\* remaining_len written with a plain subtraction
remaining_len_unchecked(num_captures, next_index) == num_captures - next_index

\* remaining_len: num_captures.saturating_sub(next_index)
remaining_len(num_captures, next_index) ==
    IF num_captures >= next_index THEN num_captures - next_index ELSE 0

\* the host records one more capture
CaptureMade ==
    /\ numCaptures < MaxCaptures
    /\ numCaptures' = numCaptures + 1
    /\ capLast' = [NoCapCall EXCEPT !.op = "capture_made", !.before = iterIndex,
                                    !.count = numCaptures + 1]
    /\ UNCHANGED <<loaderVars, optVars, hostVersion, fnCall, fnRet, rdLibrary, rdHandles,
                   rdLast, iterIndex>>

\* Captures::get
Captures_get(index) ==
    LET r == get(numCaptures, index)
    IN  /\ capLast' = [NoCapCall EXCEPT !.op = "get", !.index = index, !.before = iterIndex,
                                        !.count = numCaptures, !.outcome = r.outcome,
                                        !.capture = r.capture]
        /\ UNCHANGED <<loaderVars, optVars, hostVersion, fnCall, fnRet, rdLibrary, rdHandles,
                       rdLast, numCaptures, iterIndex>>

\* Captures::iter
Captures_iter ==
    /\ iterIndex' = [alive |-> TRUE, index |-> 0]
    /\ capLast' = [NoCapCall EXCEPT !.op = "iter", !.before = iterIndex,
                                    !.count = numCaptures, !.outcome = "returned"]
    /\ UNCHANGED <<loaderVars, optVars, hostVersion, fnCall, fnRet, rdLibrary, rdHandles,
                   rdLast, numCaptures>>

\* CapturesIter::next
next ==
    LET r == get(numCaptures, [hi |-> 0, lo |-> iterIndex.index])
    IN  /\ iterIndex.alive
        /\ iterIndex' = IF r.outcome = "Some"
                        THEN [iterIndex EXCEPT !.index = iterIndex.index + 1]
                        ELSE iterIndex
        /\ capLast' = [NoCapCall EXCEPT !.op = "next", !.before = iterIndex,
                                        !.count = numCaptures, !.outcome = r.outcome,
                                        !.capture = r.capture]
        /\ UNCHANGED <<loaderVars, optVars, hostVersion, fnCall, fnRet, rdLibrary, rdHandles,
                       rdLast, numCaptures>>

\* CapturesIter::size_hint (its lower bound; the upper bound is None)
size_hint ==
    /\ iterIndex.alive
    /\ capLast' = [NoCapCall EXCEPT !.op = "size_hint", !.before = iterIndex,
                                    !.count = numCaptures, !.outcome = "returned",
                                    !.value = remaining_len(numCaptures, iterIndex.index)]
    /\ UNCHANGED <<loaderVars, optVars, hostVersion, fnCall, fnRet, rdLibrary, rdHandles,
                   rdLast, numCaptures, iterIndex>>

\* CapturesIter::count, which takes the iterator by value
count ==
    /\ iterIndex.alive
    /\ iterIndex' = NoIter
    /\ capLast' = [NoCapCall EXCEPT !.op = "count", !.before = iterIndex,
                                    !.count = numCaptures, !.outcome = "returned",
                                    !.value = remaining_len(numCaptures, iterIndex.index)]
    /\ UNCHANGED <<loaderVars, optVars, hostVersion, fnCall, fnRet, rdLibrary, rdHandles,
                   rdLast, numCaptures>>

\* CapturesIter::last, which takes the iterator by value
last ==
    LET r == IF numCaptures = 0 THEN [outcome |-> "None", capture |-> NoCapture]
             ELSE get(numCaptures, [hi |-> 0, lo |-> numCaptures - 1])
    IN  /\ iterIndex.alive
        /\ iterIndex' = NoIter
        /\ capLast' = [NoCapCall EXCEPT !.op = "last", !.before = iterIndex,
                                        !.count = numCaptures, !.outcome = r.outcome,
                                        !.capture = r.capture]
        /\ UNCHANGED <<loaderVars, optVars, hostVersion, fnCall, fnRet, rdLibrary, rdHandles,
                       rdLast, numCaptures>>

\* CapturesIter::nth: self.index += n, then self.next()
nth(n) ==
    LET index == iterIndex.index + n
        r == get(numCaptures, [hi |-> 0, lo |-> index])
    IN  /\ iterIndex.alive
        /\ index <= MaxIndex
        /\ iterIndex' = [iterIndex EXCEPT
                           !.index = IF r.outcome = "Some" THEN index + 1 ELSE index]
        /\ capLast' = [NoCapCall EXCEPT !.op = "nth", !.n = n, !.before = iterIndex,
                                        !.count = numCaptures, !.outcome = r.outcome,
                                        !.capture = r.capture]
        /\ UNCHANGED <<loaderVars, optVars, hostVersion, fnCall, fnRet, rdLibrary, rdHandles,
                       rdLast, numCaptures>>

NextCaps ==
    \/ CaptureMade
    \/ \E hi \in {0, 1}, lo \in 0..MaxIndex : Captures_get([hi |-> hi, lo |-> lo])
    \/ Captures_iter
    \/ next
    \/ size_hint
    \/ count
    \/ last
    \/ \E n \in 0..MaxIndex : nth(n)

SpecCaps == Init /\ [][NextCaps]_vars

(* ---------------- shorthands for the properties ---------------- *)

\* t's last load has returned
Returned(t) == pc[t] = "idle" /\ result[t] # Pending

\* t holds the guard and is past the flag test: between the read of
\* INSTANCE_ACTIVE that found it false and the return
PastCheck(t) == pc[t] \in {"sym", "call", "store", "ret"}

\* C1: in every reachable state at most one FunctionTable returned by load is
\* live (returned and not yet dropped)
C1_AtMostOneLiveHandle == Cardinality(handles) <= 1

\* a handle is live after an earlier one was dropped, while a load begun
\* after that drop is under way
C1_Witness ==
    /\ Cardinality(handles) = 1
    /\ drops >= 1
    /\ \E t \in Threads : pc[t] = "lock" /\ obs[t].dropsAtStart >= 1

\* the last loads of t and u overlapped in time, both began while no handle
\* was live, both have returned and no handle was dropped since either began
RacedFromFree(t, u) ==
    /\ t # u
    /\ Returned(t) /\ Returned(u)
    /\ u \in obs[t].raced /\ t \in obs[u].raced
    /\ obs[t].freeAtStart /\ obs[u].freeAtStart
    /\ obs[t].dropsAtStart = drops /\ obs[u].dropsAtStart = drops

\* C2: two loads that race from a free slot, with no drop before both have
\* returned, never both return a handle; when neither fails in the library,
\* the symbol or the host and no third load took the slot, exactly one returns
\* a handle and the other returns MultipleInstances
C2_RaceHasOneWinner ==
    \A t, u \in Threads :
        RacedFromFree(t, u) =>
            /\ ~(result[t] = Ok /\ result[u] = Ok)
            /\ ( /\ {result[t], result[u]} \subseteq {Ok, ErrMultipleInstances}
                 /\ \A h \in handles : h.by \in {t, u} )
               => {result[t], result[u]} = {Ok, ErrMultipleInstances}

\* two racing loads have returned, one with the handle, one turned away
C2_Witness ==
    \E t, u \in Threads :
        /\ RacedFromFree(t, u)
        /\ result[t] = Ok
        /\ result[u] = ErrMultipleInstances
        /\ obs[u].didMap

\* C3: a load during which a handle stays live returns MultipleInstances; the
\* flag a load reads is never stale (it reads "active" exactly when a handle
\* is live), so a load that runs after the drop and gets 1 from the host
\* returns a handle
C3_RejectedWhileLiveThenRetry ==
    \A t \in Threads :
        /\ (Returned(t) /\ obs[t].liveThroughout) => result[t] = ErrMultipleInstances
        /\ obs[t].observed # "none" => (obs[t].observed = "active" <=> obs[t].liveAtCheck)
        /\ ( /\ Returned(t)
             /\ ~obs[t].liveAtCheck
             /\ obs[t].hostCalls = 1
             /\ obs[t].hostRet = 1 ) => result[t] = Ok

\* a load was turned away while a handle was live, the handle was dropped and
\* a load begun after the drop returned a new handle
C3_Witness ==
    \E t, u \in Threads :
        /\ result[t] = ErrMultipleInstances /\ Returned(t)
        /\ result[u] = Ok /\ Returned(u)
        /\ obs[u].dropsAtStart >= 1
        /\ obs[t].dropsAtStart = 0
        /\ handles # {}

\* C4: the flag test and the flag store of one load are not interleaved with
\* those of another load: at most one load is between its test and its return,
\* the flag it found false stays false (and no handle appears) until its own
\* store, and RENDERDOC_GetAPI runs on at most one thread at a time
C4_CheckAndSetAtomic ==
    /\ Cardinality({t \in Threads : PastCheck(t)}) <= 1
    /\ Cardinality({t \in Threads : pc[t] = "call"}) <= 1
    /\ \A t \in Threads :
          pc[t] \in {"sym", "call", "store"} => (~INSTANCE_ACTIVE /\ handles = {})

\* one thread is inside RENDERDOC_GetAPI while another waits for the guard
C4_Witness ==
    \E t, u \in Threads : pc[t] = "call" /\ pc[u] = "lock"

\* C5: a load that returns MultipleInstances has not called RENDERDOC_GetAPI
\* (nor resolved it)
C5_RejectedWithoutHostCall ==
    \A t \in Threads :
        result[t] = ErrMultipleInstances =>
            (obs[t].hostCalls = 0 /\ ~obs[t].didResolve /\ api[t] = NullPtr)

\* a load found the flag set and returned the error
C5_Witness ==
    \E t \in Threads :
        /\ Returned(t)
        /\ result[t] = ErrMultipleInstances
        /\ obs[t].observed = "active"

\* t has a reference to the mapped library (it is past get_or_try_init)
HasLibrary(t) ==
    \/ pc[t] \in {"lock", "check", "sym", "call", "store", "ret"}
    \/ (Returned(t) /\ result[t] # ErrLibrary)

\* C6: when the mapping does not fail it is performed once however many
\* loads there are: every load_library call but the failed ones is the single
\* one that filled the cell, and every load past get_or_try_init uses that
\* same mapping
C6_MappedOnce ==
    /\ mapFailures = 0 => mapAttempts <= 1
    /\ mapAttempts - mapFailures <= 1
    /\ LIBRARY \in {NoLibrary, mapFailures + 1}
    /\ \A t \in Threads : HasLibrary(t) => (LIBRARY # NoLibrary /\ lib[t] = LIBRARY)

\* two first calls raced: one ran the mapping, the other took the mapping
\* from the cell; load_library was called once
C6_Witness ==
    \E t, u \in Threads :
        /\ t # u
        /\ u \in obs[t].raced
        /\ obs[t].didMap /\ ~obs[u].didMap
        /\ obs[u].dropsAtStart = 0 /\ obs[u].freeAtStart
        /\ HasLibrary(t) /\ HasLibrary(u)
        /\ mapAttempts = 1

C9_NoCompatibleApi ==
    /\ [](\A t \in Threads :
            result[t] = Ok => (obs[t].hostCalls = 1 /\ obs[t].hostRet = 1))
    /\ [][\A t \in Threads :
            (pc[t] = "call" /\ pc'[t] # "call" /\ obs'[t].hostRet # 1) =>
                /\ pc'[t] = "idle"
                /\ result'[t] = ErrNoCompatibleApi
                /\ ~INSTANCE_ACTIVE'
                /\ handles' = {}
                /\ mutexOwner' = NoThread]_vars

\* a load was refused by the host and a load asking for a lower version,
\* made afterwards without any drop, returned a handle
C9_Witness ==
    \E t, u \in Threads :
        /\ Returned(t) /\ result[t] = ErrNoCompatibleApi
        /\ Returned(u) /\ result[u] = Ok
        /\ version[u] < version[t]
        /\ drops = 0
        /\ handles # {}

\* C10: the flag rises only in the store of a load that then returns a
\* handle, and falls only in the drop of a handle; it is true whenever a
\* handle is live and false whenever no handle is live and no load is running
C10_FlagFollowsHandle ==
    /\ [](handles # {} => INSTANCE_ACTIVE)
    /\ []((handles = {} /\ \A t \in Threads : pc[t] = "idle") => ~INSTANCE_ACTIVE)
    /\ [][ /\ (~INSTANCE_ACTIVE /\ INSTANCE_ACTIVE') =>
                \E t \in Threads : pc[t] = "store" /\ pc'[t] = "ret"
           /\ (INSTANCE_ACTIVE /\ ~INSTANCE_ACTIVE') =>
                (handles' # handles /\ handles' \subseteq handles)
           /\ \A t \in Threads :
                (pc[t] = "ret" /\ pc'[t] # "ret") =>
                    /\ result'[t] = Ok
                    /\ \E h \in handles' \ handles : h.by = t
         ]_vars

\* the flag rose, fell with the drop and rose again; the second handle is
\* live and no load is running
C10_Witness ==
    /\ INSTANCE_ACTIVE
    /\ handles # {}
    /\ drops >= 1
    /\ \A t \in Threads : pc[t] = "idle"

\* C11 as stated: every construction path makes the singleton check, so at
\* most one RenderDoc<V> value is alive and a RenderDoc::new called while one
\* is alive does not return a second one
C11_NewChecksSingleton ==
    /\ Cardinality(rdHandles) <= 1
    /\ rdLast.op = "new" /\ rdLast.result = Ok =>
           \A h \in rdHandles : h.seq = rdLast.seq

\* tag a is listed right before tag b in define_versions!
Adjacent(a, b) == TagIndex(b) = TagIndex(a) + 1

\* C12: A: Minimum<B> holds exactly when code(A) >= code(B); the relation is
\* reflexive and transitive; for adjacent tags (A older, B newer) A: Minimum<B>
\* is false and B: Minimum<A> is true
C12_MinimumIsAtLeast ==
    fnCall.op = "Minimum" =>
        /\ fnRet <=> VERSION(fnCall.a) >= VERSION(fnCall.b)
        /\ fnCall.a = fnCall.b => fnRet
        /\ fnRet => \A c \in VersionTags : Minimum(fnCall.b, c) => Minimum(fnCall.a, c)
        /\ Adjacent(fnCall.a, fnCall.b) => (~fnRet /\ Minimum(fnCall.b, fnCall.a))

\* the relation was evaluated for the adjacent pair (V141, V142) and is false
C12_Witness ==
    /\ fnCall.op = "Minimum"
    /\ fnCall.a = "V141" /\ fnCall.b = "V142"
    /\ fnRet = FALSE

\* C13: A: Below<B> holds exactly when code(A) < code(B); no tag is
\* Below<V100>; for adjacent tags (A older, B newer) A: Below<B> is true and
\* B: Below<A> is false
C13_BelowIsStrictlyOlder ==
    fnCall.op = "Below" =>
        /\ fnRet <=> VERSION(fnCall.a) < VERSION(fnCall.b)
        /\ fnCall.b = "V100" => ~fnRet
        /\ Adjacent(fnCall.a, fnCall.b) => (fnRet /\ ~Below(fnCall.b, fnCall.a))

\* the relation was evaluated for a pair two steps apart and is true
C13_Witness ==
    /\ fnCall.op = "Below"
    /\ fnCall.a = "V100" /\ fnCall.b = "V102"
    /\ fnRet = TRUE

\* C14: every tag's code is from_digits of its version, that is
\* major*10000 + minor*100 + patch; from_digits stays below 2^32 on u8
\* arguments; the codes strictly increase in the order of the list
C14_CodesFromDigits ==
    /\ fnCall.op = "VERSION" =>
          LET d == VersionDigits[fnCall.tag] IN
          /\ fnRet = from_digits(d[1], d[2], d[3])
          /\ fnRet = d[1] * 10000 + d[2] * 100 + d[3]
          /\ \A other \in VersionTags :
                TagIndex(other) < TagIndex(fnCall.tag) => VERSION(other) < fnRet
    /\ fnCall.op = "from_digits" =>
          /\ fnRet = fnCall.major * 10000 + fnCall.minor * 100 + fnCall.patch
          /\ fnRet \div 65536 < 65536
          /\ fnRet >= 0

\* the code of the last tag of the list was read
C14_Witness ==
    /\ fnCall.op = "VERSION"
    /\ fnCall.tag = "V160"
    /\ fnRet = 10600

C16_TryUpgradeFollowsHost ==
    rdLast.op = "try_upgrade" =>
        /\ rdLast.result = Ok <=> hostVersion >= VERSION(rdLast.target)
        /\ rdLast.result = Ok =>
               /\ rdLast.ptrOut = rdLast.ptrIn
               /\ \E h \in rdHandles :
                      h = [entry |-> rdLast.ptrIn, tag |-> rdLast.target, seq |-> rdLast.seq]
        /\ rdLast.before = "downgrade" /\ hostVersion >= VERSION(rdLast.target) =>
               /\ rdLast.result = Ok
               /\ rdLast.ptrOut = rdLast.origPtr

\* a RenderDoc<V141> was downgraded and upgraded back to V141, and holds the
\* host's pointer
C16_Witness ==
    /\ rdLast.op = "try_upgrade"
    /\ rdLast.before = "downgrade"
    /\ rdLast.target = "V141"
    /\ rdLast.result = Ok
    /\ \E h \in rdHandles :
           h = [entry |-> TablePtr, tag |-> "V141", seq |-> rdLast.seq]

Bit(x, i) ==
    IF i < 16 THEN (x.lo \div 2^i) % 2 ELSE (x.hi \div 2^(i - 16)) % 2

\* bit i belongs to one of the flags ENABLED, FRAME_RATE, FRAME_NUMBER,
\* CAPTURE_LIST
KnownBit(i) == \E f \in OverlayFlags : Bit(f, i) = 1

\* C19: from_bits_truncate(b) has, at every position of a flag, the bit b has
\* there, and 0 at every other position; truncating its bits again gives the
\* same value
C19_TruncateKeepsKnownBits ==
    fnCall.op = "from_bits_truncate" =>
        /\ \A i \in 0..31 :
               Bit(fnRet.bits, i) = IF KnownBit(i) THEN Bit(fnCall.bits, i) ELSE 0
        /\ from_bits_truncate(fnRet.bits) = fnRet

\* CAPTURE_LIST with the bit 0b10000 was truncated to CAPTURE_LIST
C19_Witness ==
    /\ fnCall.op = "from_bits_truncate"
    /\ fnCall.bits = U32(0, 24)
    /\ fnRet = [bits |-> U32(0, 8)]

\* C20: a & b, a | b and !a have, at each of the 32 positions, the AND, the OR
\* and the negation of the operands' bits (no position is cleared for being
\* outside the flags), and a.contains(b) is true exactly when a has every bit
\* b has
C20_BitwiseAlgebra ==
    /\ fnCall.op = "bitand" =>
           \A i \in 0..31 :
               Bit(fnRet.bits, i) = 1 <=>
                   Bit(fnCall.a.bits, i) = 1 /\ Bit(fnCall.b.bits, i) = 1
    /\ fnCall.op = "bitor" =>
           \A i \in 0..31 :
               Bit(fnRet.bits, i) = 1 <=>
                   Bit(fnCall.a.bits, i) = 1 \/ Bit(fnCall.b.bits, i) = 1
    /\ fnCall.op = "not" =>
           \A i \in 0..31 : Bit(fnRet.bits, i) = 1 - Bit(fnCall.a.bits, i)
    /\ fnCall.op = "contains" =>
           (fnRet <=> \A i \in 0..31 :
                          Bit(fnCall.b.bits, i) = 1 => Bit(fnCall.a.bits, i) = 1)

\* !CAPTURE_LIST was computed: every bit but bit 3
C20_Witness ==
    /\ fnCall.op = "not"
    /\ fnCall.a = [bits |-> U32(0, eRENDERDOC_Overlay_CaptureList)]
    /\ fnRet = [bits |-> U32(65535, 65527)]

\* the u32 x is numerically smaller than the u32 y: at the highest position
\* where they differ, x has 0
BitsSmaller(x, y) ==
    \E i \in 0..31 :
        /\ Bit(x, i) = 0
        /\ Bit(y, i) = 1
        /\ \A j \in (i + 1)..31 : Bit(x, j) = Bit(y, j)

\* all 32 bits of x and y agree
BitsEqual(x, y) == \A i \in 0..31 : Bit(x, i) = Bit(y, i)

C25_IterYieldsContainedFlags ==
    fnCall.op = "iter" =>
        LET Has(i) == Bit(fnCall.a.bits, i - 1) = 1
            Single(i) == [bits |-> U32(0, 2^(i - 1))]
        IN /\ Len(fnRet) = Cardinality({i \in 1..4 : Has(i)})
           /\ \A i \in 1..4 : Has(i) <=> \E k \in DOMAIN fnRet : fnRet[k] = Single(i)
           /\ \A k \in DOMAIN fnRet : \E i \in 1..4 : fnRet[k] = Single(i)
           /\ \A k, l \in DOMAIN fnRet :
                  k < l => BitsSmaller(fnRet[k].bits, fnRet[l].bits)

\* iter on all() gave the four flags in order
C25_Witness ==
    /\ fnCall.op = "iter"
    /\ fnCall.a = all
    /\ fnRet = <<[bits |-> U32(0, 1)], [bits |-> U32(0, 2)],
                 [bits |-> U32(0, 4)], [bits |-> U32(0, 8)]>>

\* C26 as stated: is_default is true exactly when the bits are those of
\* DEFAULT (the four flags and nothing else)
C26_IsDefaultExact ==
    fnCall.op = "is_default" =>
        (fnRet <=> \A i \in 0..31 : Bit(fnCall.a.bits, i) = IF i < 4 THEN 1 ELSE 0)

\* tag v comes before tag w in the version list
OlderThan(v, w) == TagIndex(v) < TagIndex(w)

\* C24: of the old and the new name of a renamed capture option exactly one is
\* available for every version tag, on the setters and on the getters:
\* debug_device_mode exactly below V102 and api_validation exactly from V102
\* on, verify_map_writes exactly below V130 and verify_buffer_access exactly
\* from V130 on
C24_RenamedOptionsDisjoint ==
    fnCall.op = "available" =>
        LET v == fnCall.tag
            has(m) == MethodAvailable(fnCall.trait, m, v)
        IN  /\ fnCall.method = "debug_device_mode" => (fnRet <=> OlderThan(v, "V102"))
            /\ fnCall.method = "api_validation" => (fnRet <=> ~OlderThan(v, "V102"))
            /\ fnCall.method = "verify_map_writes" => (fnRet <=> OlderThan(v, "V130"))
            /\ fnCall.method = "verify_buffer_access" => (fnRet <=> ~OlderThan(v, "V130"))
            /\ has("debug_device_mode") # has("api_validation")
            /\ has("verify_map_writes") # has("verify_buffer_access")

C24_Witness ==
    /\ fnCall.op = "available"
    /\ fnCall.trait = "SetCaptureOptions"
    /\ fnCall.method = "debug_device_mode"
    /\ fnCall.tag = "V102"
    /\ fnRet = FALSE

\* the calls that pass an option/value pair to the host
OptionSetters ==
    {"set_capture_option_u32", "set_capture_callstacks", "set_delay_for_debugger",
     "allow_unsupported_vendor_extensions"}

\* C22: when the host rejects an option/value pair, the setter returns an
\* error value to its caller; it neither panics nor drops the failure
C22_RejectionReturnsError ==
    (optLast.op \in OptionSetters /\ optLast.rejected) => optLast.outcome = "Err"

\* C29: after capture_callstacks setter calls, the getter returns the state
\* passed to the last of them, whatever the two host options held before
C29_CallstacksGetterFollowsSetter ==
    (optLast.op = "capture_callstacks" /\ optLast.ccSet # "none") =>
        /\ optLast.outcome = "returned"
        /\ optLast.got = optLast.ccSet

C29_Witness ==
    /\ optLast.op = "capture_callstacks"
    /\ optLast.ccSet = "Enabled"
    /\ optLast.got = "Enabled"
    /\ options["CaptureCallstacksOnlyDraws"] = U32(0, 0)

\* C30: after delay_for_debugger(d) the getter returns d truncated to whole
\* seconds, and does not fail
C30_DelayRoundTrip ==
    (optLast.op = "delay_for_debugger" /\ optLast.delayKnown) =>
        /\ optLast.outcome = "returned"
        /\ optLast.gotDelay = Duration(optLast.delaySet.secs, 0)

\* the Capture the host's entry i stands for: the path without its NUL
CaptureAt(i) ==
    [path |-> SubSeq(HostCapture(i).path, 1, Len(HostCapture(i).path) - 1),
     timestamp |-> HostCapture(i).timestamp]

\* C23: with N captures, get(i) is Some(capture i: the host's path and time)
\* for every i < N and None for every i >= N, an i beyond 32 bits included
C23_GetFollowsHostList ==
    capLast.op = "get" =>
        IF capLast.index.hi = 0 /\ capLast.index.lo < capLast.count
        THEN /\ capLast.outcome = "Some"
             /\ capLast.capture = CaptureAt(capLast.index.lo)
        ELSE capLast.outcome = "None"

\* C27: count() and the lower bound of size_hint() are max(0, N - i), with no
\* underflow or panic when i exceeds N
C27_RemainingSaturates ==
    capLast.op \in {"count", "size_hint"} =>
        /\ capLast.outcome = "returned"
        /\ capLast.value >= 0
        /\ capLast.value + capLast.before.index =
               IF capLast.before.index > capLast.count
               THEN capLast.before.index ELSE capLast.count

C27_Witness ==
    /\ capLast.op = "count"
    /\ capLast.before.index > capLast.count
    /\ capLast.count > 0
    /\ capLast.value = 0

RECURSIVE default_last(_, _, _)
\* Iterator::last as the standard library defines it: the last item that
\* next yields from index i on, acc when there is none
default_last(n, i, acc) ==
    LET r == get(n, [hi |-> 0, lo |-> i])
    IN  IF r.outcome = "Some" THEN default_last(n, i + 1, r) ELSE
        IF r.outcome = "panic" THEN r ELSE acc

RECURSIVE default_nth(_, _, _)
\* Iterator::nth as the standard library defines it: k calls of next, ended
\* by the first None, and then one more
default_nth(n, i, k) ==
    LET r == get(n, [hi |-> 0, lo |-> i])
    IN  IF k = 0 \/ r.outcome # "Some" THEN r ELSE default_nth(n, i + 1, k - 1)

\* C28: over a fixed list of N captures next yields captures 0..N-1 in order
\* and then None, and last and nth return what the default implementations
\* built on next return, from every position
C28_IterLikeStandard ==
    /\ capLast.op = "next" =>
           IF capLast.before.index < capLast.count
           THEN /\ capLast.outcome = "Some"
                /\ capLast.capture = CaptureAt(capLast.before.index)
                /\ iterIndex.index = capLast.before.index + 1
           ELSE capLast.outcome = "None"
    /\ capLast.op = "last" =>
           LET r == default_last(capLast.count, capLast.before.index,
                                 [outcome |-> "None", capture |-> NoCapture])
           IN  capLast.outcome = r.outcome /\ capLast.capture = r.capture
    /\ capLast.op = "nth" =>
           LET r == default_nth(capLast.count, capLast.before.index, capLast.n)
           IN  capLast.outcome = r.outcome /\ capLast.capture = r.capture

TypeOK ==
    /\ pc \in [Threads -> {"idle", "init", "loading", "lock", "check", "sym", "call", "store", "ret"}]
    /\ INSTANCE_ACTIVE \in BOOLEAN
    /\ mutexOwner \in Threads \cup {NoThread}
    /\ initializing \in Threads \cup {NoThread}
====
